---- MODULE Spec2Model ----
(***************************************************************************)
(* The two static function libraries that expose PoseSearch database      *)
(* editing to scripting:                                                   *)
(*   UPoseSearchPythonExtensionsLibrary  (PoseSearchPythonExtensions)      *)
(*   UAAANKPoseBlueprintLibrary          (AAANKPose)                       *)
(* Each library is given its own database object; every step applies the  *)
(* same operation with the same arguments and the same host responses to  *)
(* both, so that the two can be compared call by call.                    *)
(***************************************************************************)
EXTENDS Integers, Sequences, FiniteSets, TLC

\* ------------------------------------------------------------------ bounds
MaxAssets == 2
MaxBatch == 2

\* --------------------------------------------------------------- constants
nullptr == 0
TheDatabase == 1
TheSchema == 1
AnimAssetsPropertyPtr == 1

PSPE == "UPoseSearchPythonExtensionsLibrary"
AAANK == "UAAANKPoseBlueprintLibrary"
Libs == {PSPE, AAANK}

\* Two distinct UAnimSequence objects are enough to tell order and duplicates.
Anims == {1, 2}
AnimRefs == {nullptr} \cup Anims

RECURSIVE SeqsUpTo(_, _)
SeqsUpTo(S, n) ==
  IF n = 0 THEN {<<>>}
  ELSE LET shorter == SeqsUpTo(S, n - 1)
       IN  shorter \cup {Append(s, x) : s \in {t \in shorter : Len(t) = n - 1}, x \in S}

VARIABLES
  WITH_EDITOR,      \* the build: TRUE for an editor build
  db,               \* db[lib]: the UPoseSearchDatabase object the library works on
  pre,              \* pre[lib]: that object as it was when the last call was entered
  ret,              \* ret[lib]: the value the last call returned
  lastCall,         \* the last call: operation, arguments, host responses
  expectedCount     \* expectedCount[lib]: GetAnimationCount when the current run of adds
                    \* began (at the start or at the last ClearDatabase) plus the sum of
                    \* what the adds of that run reported

vars == <<WITH_EDITOR, db, pre, ret, lastCall, expectedCount>>

\* ----------------------------------------------------- the host's object API
\* A host call as it is observed on the database object.
HostCall(fn, arg) == [fn |-> fn, arg |-> arg]

\* UObject::Modify(): records the object for the transaction (undo) system.
Modify(o) ==
  [o EXCEPT !.HostCalls = Append(@, HostCall("Modify", nullptr))]

\* UPoseSearchDatabase::AddAnimationAsset(AnimAsset): appends the entry;
\* the entry is identified by the animation it references.
AddAnimationAsset(o, Anim) ==
  [o EXCEPT !.AnimationAssets = Append(@, Anim),
            !.HostCalls = Append(@, HostCall("AddAnimationAsset", Anim))]

\* UObject::MarkPackageDirty()
MarkPackageDirty(o) ==
  [o EXCEPT !.bDirty = TRUE,
            !.HostCalls = Append(@, HostCall("MarkPackageDirty", nullptr))]

\* UObject::PostEditChangeProperty(FPropertyChangedEvent(Property)):
\* the host rebuilds the search index from the current animation list.
PostEditChangeProperty(o, Property) ==
  [o EXCEPT !.SearchIndex = o.AnimationAssets,
            !.HostCalls = Append(@, HostCall("PostEditChangeProperty", Property))]

\* UPackage::SavePackage(...): bSaved is the host's answer. A successful
\* save writes the object out and clears the package's dirty flag.
SavePackage(o, bSaved) ==
  IF bSaved
  THEN [o EXCEPT !.SavedAssets = o.AnimationAssets,
                 !.bDirty = FALSE,
                 !.HostCalls = Append(@, HostCall("SavePackage", nullptr))]
  ELSE [o EXCEPT !.HostCalls = Append(@, HostCall("SavePackage", nullptr))]

\* FScriptArrayHelper::EmptyValues() on the reflected array.
EmptyValues(o) ==
  [o EXCEPT !.AnimationAssets = <<>>,
            !.HostCalls = Append(@, HostCall("EmptyValues", nullptr))]

\* UPoseSearchDatabase::GetNumAnimationAssets()
GetNumAnimationAssets(o) == Len(o.AnimationAssets)

\* UClass::FindPropertyByName("AnimationAssets"): Reflected is what the host
\* class reflects under that name ("none" when it has no such property).
FindPropertyByName(Reflected) ==
  IF Reflected = "none" THEN nullptr ELSE AnimAssetsPropertyPtr

\* CastField<FArrayProperty>(AnimAssetsProperty)
CastFieldArrayProperty(Property, Reflected) ==
  IF Property # nullptr /\ Reflected = "FArrayProperty" THEN Property ELSE nullptr

\* UObject::GetName()
DatabaseName == "PSD_Locomotion"
SchemaGetName == "PSS_Default"

\* FString::Printf(TEXT("Database: %s\nAnimations: %d\nSchema: %s"), ...)
Printf(Name, AnimCount, SchemaName) ==
  "Database: " \o Name \o "\nAnimations: " \o ToString(AnimCount) \o "\nSchema: " \o SchemaName

\* What an operation hands back: the object after the call and the return value.
Result(o, r) == [obj |-> o, ret |-> r]

\* The object as a call finds it: this call has made no host call and
\* written no log line yet.
Enter(o) == [o EXCEPT !.HostCalls = <<>>, !.Log = <<>>]

\* UE_LOG(LogTemp, Verbosity, Format, ...): the line is identified by its
\* verbosity and format string.
UE_LOG(o, Verbosity, Format) ==
  [o EXCEPT !.Log = Append(@, [Verbosity |-> Verbosity, Format |-> Format])]

\* Mutant: an animation the database already holds is not inserted again,
\* yet the call still reports success.
Mut_PSPE_AddAnimationToDatabase_SkipDuplicate(o, Database, AnimSequence) ==
  IF Database = nullptr \/ AnimSequence = nullptr
  THEN Result(UE_LOG(o, "Error", "AddAnimationToDatabase: Invalid database or animation"), FALSE)
  ELSE LET o0 == UE_LOG(o, "Log", "Adding animation '%s' to database '%s'")
           o1 == Modify(o0)
           o2 == IF \E i \in 1..Len(o1.AnimationAssets) : o1.AnimationAssets[i] = AnimSequence
                 THEN o1
                 ELSE AddAnimationAsset(o1, AnimSequence)
           o3 == MarkPackageDirty(o2)
           o4 == PostEditChangeProperty(o3, nullptr)
           o5 == UE_LOG(o4, "Log", "Successfully added animation to database")
       IN  Result(o5, TRUE)

\* ------------------------------------ UPoseSearchPythonExtensionsLibrary
\* The FScopedSlowTask progress dialog of the batch add and of the build only
\* reports progress; it touches neither the database nor the return value and
\* is left out.
PSPE_AddAnimationToDatabase(o, Database, AnimSequence) ==
  IF Database = nullptr \/ AnimSequence = nullptr
  THEN Result(UE_LOG(o, "Error", "AddAnimationToDatabase: Invalid database or animation"), FALSE)
  ELSE LET o0 == UE_LOG(o, "Log", "Adding animation '%s' to database '%s'")
           o1 == Modify(o0)
           o2 == AddAnimationAsset(o1, AnimSequence)
           o3 == MarkPackageDirty(o2)
           o4 == PostEditChangeProperty(o3, nullptr)
           o5 == UE_LOG(o4, "Log", "Successfully added animation to database")
       IN  Result(o5, TRUE)

\* for (UAnimSequence* Anim : AnimSequences) { if (Anim) { add; AddedCount++; log; } }
\* from position i on; yields the object and AddedCount after the loop.
RECURSIVE PSPE_AddLoop(_, _, _, _)
PSPE_AddLoop(o, AnimSequences, i, AddedCount) ==
  IF i > Len(AnimSequences)
  THEN [obj |-> o, AddedCount |-> AddedCount]
  ELSE IF AnimSequences[i] # nullptr
       THEN PSPE_AddLoop(UE_LOG(AddAnimationAsset(o, AnimSequences[i]),
                                "Log", "Added animation %d/%d: %s"),
                         AnimSequences, i + 1, AddedCount + 1)
       ELSE PSPE_AddLoop(o, AnimSequences, i + 1, AddedCount)

PSPE_AddAnimationsToDatabase(o, Database, AnimSequences) ==
  IF Database = nullptr
  THEN Result(UE_LOG(o, "Error", "AddAnimationsToDatabase: Invalid database"), 0)
  ELSE LET o1 == Modify(o)
           l  == PSPE_AddLoop(o1, AnimSequences, 1, 0)
           o2 == MarkPackageDirty(l.obj)
           o3 == PostEditChangeProperty(o2, nullptr)
           o4 == UE_LOG(o3, "Log", "Added %d/%d animations to database '%s'")
       IN  Result(o4, l.AddedCount)

\* Mutant: the result of the save is ignored.
Mut_PSPE_BuildDatabase_IgnoreSaveResult(o, Database, bSaved) ==
  IF Database = nullptr
  THEN Result(UE_LOG(o, "Error", "BuildDatabase: Invalid database"), FALSE)
  ELSE LET o0 == UE_LOG(o, "Log", "Building database '%s'")
           o1 == Modify(o0)
           o2 == PostEditChangeProperty(o1, nullptr)
           o3 == MarkPackageDirty(o2)
           o4 == SavePackage(o3, bSaved)
       IN  Result(UE_LOG(o4, "Log", "Database built and saved successfully"), TRUE)

\* Mutant: a failed save is tried a second time.
Mut_PSPE_BuildDatabase_RetrySave(o, Database, bSaved) ==
  IF Database = nullptr
  THEN Result(UE_LOG(o, "Error", "BuildDatabase: Invalid database"), FALSE)
  ELSE LET o0 == UE_LOG(o, "Log", "Building database '%s'")
           o1 == Modify(o0)
           o2 == PostEditChangeProperty(o1, nullptr)
           o3 == MarkPackageDirty(o2)
           o4 == SavePackage(o3, bSaved)
       IN  IF bSaved
           THEN Result(UE_LOG(o4, "Log", "Database built and saved successfully"), TRUE)
           ELSE Result(UE_LOG(SavePackage(o4, bSaved), "Warning",
                              "Database built but save failed"), FALSE)

PSPE_BuildDatabase(o, Database, bSaved) ==
  IF Database = nullptr
  THEN Result(UE_LOG(o, "Error", "BuildDatabase: Invalid database"), FALSE)
  ELSE LET o0 == UE_LOG(o, "Log", "Building database '%s'")
           o1 == Modify(o0)
           o2 == PostEditChangeProperty(o1, nullptr)
           o3 == MarkPackageDirty(o2)
           o4 == SavePackage(o3, bSaved)
       IN  IF bSaved
           THEN Result(UE_LOG(o4, "Log", "Database built and saved successfully"), TRUE)
           ELSE Result(UE_LOG(o4, "Warning", "Database built but save failed"), FALSE)

PSPE_GetAnimationCount(o, Database) ==
  IF Database = nullptr
  THEN Result(o, 0)
  ELSE Result(o, GetNumAnimationAssets(o))

\* Mutant: the array is never emptied, yet success is reported.
Mut_PSPE_ClearDatabase_NoEmptyValues(o, Database, Reflected) ==
  IF Database = nullptr
  THEN Result(UE_LOG(o, "Error", "ClearDatabase: Invalid database"), FALSE)
  ELSE LET o0 == UE_LOG(o, "Log", "Clearing database '%s'")
           o1 == Modify(o0)
           AnimAssetsProperty == FindPropertyByName(Reflected)
           ArrayProperty == CastFieldArrayProperty(AnimAssetsProperty, Reflected)
       IN  IF AnimAssetsProperty = nullptr
           THEN Result(UE_LOG(o1, "Error", "Could not find AnimationAssets property"), FALSE)
           ELSE IF ArrayProperty = nullptr
                THEN Result(o1, FALSE)
                ELSE LET o3 == MarkPackageDirty(o1)
                         o4 == PostEditChangeProperty(o3, AnimAssetsProperty)
                         o5 == UE_LOG(o4, "Log", "Database cleared successfully")
                     IN  Result(o5, TRUE)

\* Mutant: the array is emptied but the package is not marked dirty.
Mut_PSPE_ClearDatabase_NoMarkPackageDirty(o, Database, Reflected) ==
  IF Database = nullptr
  THEN Result(UE_LOG(o, "Error", "ClearDatabase: Invalid database"), FALSE)
  ELSE LET o0 == UE_LOG(o, "Log", "Clearing database '%s'")
           o1 == Modify(o0)
           AnimAssetsProperty == FindPropertyByName(Reflected)
           ArrayProperty == CastFieldArrayProperty(AnimAssetsProperty, Reflected)
       IN  IF AnimAssetsProperty = nullptr
           THEN Result(UE_LOG(o1, "Error", "Could not find AnimationAssets property"), FALSE)
           ELSE IF ArrayProperty = nullptr
                THEN Result(o1, FALSE)
                ELSE LET o2 == EmptyValues(o1)
                         o4 == PostEditChangeProperty(o2, AnimAssetsProperty)
                         o5 == UE_LOG(o4, "Log", "Database cleared successfully")
                     IN  Result(o5, TRUE)

PSPE_ClearDatabase(o, Database, Reflected) ==
  IF Database = nullptr
  THEN Result(UE_LOG(o, "Error", "ClearDatabase: Invalid database"), FALSE)
  ELSE LET o0 == UE_LOG(o, "Log", "Clearing database '%s'")
           o1 == Modify(o0)
           AnimAssetsProperty == FindPropertyByName(Reflected)
           ArrayProperty == CastFieldArrayProperty(AnimAssetsProperty, Reflected)
       IN  IF AnimAssetsProperty = nullptr
           THEN Result(UE_LOG(o1, "Error", "Could not find AnimationAssets property"), FALSE)
           ELSE IF ArrayProperty = nullptr
                THEN Result(o1, FALSE)
                ELSE LET o2 == EmptyValues(o1)
                         o3 == MarkPackageDirty(o2)
                         o4 == PostEditChangeProperty(o3, AnimAssetsProperty)
                         o5 == UE_LOG(o4, "Log", "Database cleared successfully")
                     IN  Result(o5, TRUE)

PSPE_GetDatabaseInfo(o, Database) ==
  IF Database = nullptr
  THEN Result(o, "Invalid database")
  ELSE LET AnimCount == GetNumAnimationAssets(o)
           Schema == o.Schema
           SchemaName == IF Schema # nullptr THEN SchemaGetName ELSE "None"
       IN  Result(o, Printf(DatabaseName, AnimCount, SchemaName))

\* Mutant: the null check forgets AnimSequence.
Mut_AAANK_AddAnimationToDatabase_NoAnimCheck(o, Database, AnimSequence) ==
  IF Database = nullptr
  THEN Result(UE_LOG(o, "Error", "AddAnimationToDatabase: Invalid database or animation"), FALSE)
  ELSE LET o0 == UE_LOG(o, "Log", "Adding animation '%s' to database '%s'")
       IN  IF WITH_EDITOR
           THEN LET o1 == Modify(o0)
                    o2 == AddAnimationAsset(o1, AnimSequence)
                    o3 == MarkPackageDirty(o2)
                    o4 == PostEditChangeProperty(o3, nullptr)
                    o5 == UE_LOG(o4, "Log", "Successfully added animation to database")
                IN  Result(o5, TRUE)
           ELSE Result(UE_LOG(o0, "Warning",
                              "AddAnimationToDatabase is only available in editor builds"), FALSE)

\* -------------------------------------------- UAAANKPoseBlueprintLibrary
AAANK_AddAnimationToDatabase(o, Database, AnimSequence) ==
  IF Database = nullptr \/ AnimSequence = nullptr
  THEN Result(UE_LOG(o, "Error", "AddAnimationToDatabase: Invalid database or animation"), FALSE)
  ELSE LET o0 == UE_LOG(o, "Log", "Adding animation '%s' to database '%s'")
       IN  IF WITH_EDITOR
           THEN LET o1 == Modify(o0)
                    o2 == AddAnimationAsset(o1, AnimSequence)
                    o3 == MarkPackageDirty(o2)
                    o4 == PostEditChangeProperty(o3, nullptr)
                    o5 == UE_LOG(o4, "Log", "Successfully added animation to database")
                IN  Result(o5, TRUE)
           ELSE Result(UE_LOG(o0, "Warning",
                              "AddAnimationToDatabase is only available in editor builds"), FALSE)

\* Mutant: the loop stops at the first null entry instead of skipping it.
RECURSIVE Mut_AAANK_AddLoop_BreakOnNull(_, _, _, _)
Mut_AAANK_AddLoop_BreakOnNull(o, AnimSequences, i, AddedCount) ==
  IF i > Len(AnimSequences)
  THEN [obj |-> o, AddedCount |-> AddedCount]
  ELSE IF AnimSequences[i] # nullptr
       THEN Mut_AAANK_AddLoop_BreakOnNull(UE_LOG(AddAnimationAsset(o, AnimSequences[i]),
                                                 "Log", "Added animation %d/%d: %s"),
                                          AnimSequences, i + 1, AddedCount + 1)
       ELSE [obj |-> o, AddedCount |-> AddedCount]

RECURSIVE AAANK_AddLoop(_, _, _, _)
AAANK_AddLoop(o, AnimSequences, i, AddedCount) ==
  IF i > Len(AnimSequences)
  THEN [obj |-> o, AddedCount |-> AddedCount]
  ELSE IF AnimSequences[i] # nullptr
       THEN AAANK_AddLoop(UE_LOG(AddAnimationAsset(o, AnimSequences[i]),
                                 "Log", "Added animation %d/%d: %s"),
                          AnimSequences, i + 1, AddedCount + 1)
       ELSE AAANK_AddLoop(o, AnimSequences, i + 1, AddedCount)

\* Mutant: when nothing was added the dirty mark and the notification are skipped.
Mut_AAANK_AddAnimationsToDatabase_SkipWhenNoneAdded(o, Database, AnimSequences) ==
  IF Database = nullptr
  THEN Result(UE_LOG(o, "Error", "AddAnimationsToDatabase: Invalid database"), 0)
  ELSE IF WITH_EDITOR
       THEN LET o1 == Modify(o)
                l  == AAANK_AddLoop(o1, AnimSequences, 1, 0)
                o2 == MarkPackageDirty(l.obj)
                o3 == PostEditChangeProperty(o2, nullptr)
                o4 == UE_LOG(o3, "Log", "Added %d/%d animations to database '%s'")
            IN  IF l.AddedCount = 0 THEN Result(l.obj, 0) ELSE Result(o4, l.AddedCount)
       ELSE Result(UE_LOG(o, "Warning",
                          "AddAnimationsToDatabase is only available in editor builds"), 0)

AAANK_AddAnimationsToDatabase(o, Database, AnimSequences) ==
  IF Database = nullptr
  THEN Result(UE_LOG(o, "Error", "AddAnimationsToDatabase: Invalid database"), 0)
  ELSE IF WITH_EDITOR
       THEN LET o1 == Modify(o)
                l  == AAANK_AddLoop(o1, AnimSequences, 1, 0)
                o2 == MarkPackageDirty(l.obj)
                o3 == PostEditChangeProperty(o2, nullptr)
                o4 == UE_LOG(o3, "Log", "Added %d/%d animations to database '%s'")
            IN  Result(o4, l.AddedCount)
       ELSE Result(UE_LOG(o, "Warning",
                          "AddAnimationsToDatabase is only available in editor builds"), 0)

\* Mutant: the branch for WITH_EDITOR off reports success.
Mut_AAANK_BuildDatabase_TrueWithoutEditor(o, Database, bSaved) ==
  IF Database = nullptr
  THEN Result(UE_LOG(o, "Error", "BuildDatabase: Invalid database"), FALSE)
  ELSE IF WITH_EDITOR
       THEN LET o0 == UE_LOG(o, "Log", "Building database '%s'")
                o1 == Modify(o0)
                o2 == PostEditChangeProperty(o1, nullptr)
                o3 == MarkPackageDirty(o2)
                o4 == UE_LOG(o3, "Log", "Database rebuilt successfully")
            IN  Result(o4, TRUE)
       ELSE Result(UE_LOG(o, "Warning", "BuildDatabase is only available in editor builds"),
                   TRUE)

\* No package save here: the host's answer bSaved is never asked for.
AAANK_BuildDatabase(o, Database, bSaved) ==
  IF Database = nullptr
  THEN Result(UE_LOG(o, "Error", "BuildDatabase: Invalid database"), FALSE)
  ELSE IF WITH_EDITOR
       THEN LET o0 == UE_LOG(o, "Log", "Building database '%s'")
                o1 == Modify(o0)
                o2 == PostEditChangeProperty(o1, nullptr)
                o3 == MarkPackageDirty(o2)
                o4 == UE_LOG(o3, "Log", "Database rebuilt successfully")
            IN  Result(o4, TRUE)
       ELSE Result(UE_LOG(o, "Warning", "BuildDatabase is only available in editor builds"),
                   FALSE)

AAANK_GetAnimationCount(o, Database) ==
  IF Database = nullptr
  THEN Result(o, 0)
  ELSE Result(o, GetNumAnimationAssets(o))

AAANK_ClearDatabase(o, Database, Reflected) ==
  IF Database = nullptr
  THEN Result(UE_LOG(o, "Error", "ClearDatabase: Invalid database"), FALSE)
  ELSE IF WITH_EDITOR
       THEN LET o0 == UE_LOG(o, "Log", "Clearing database '%s'")
                o1 == Modify(o0)
                AnimAssetsProperty == FindPropertyByName(Reflected)
                ArrayProperty == CastFieldArrayProperty(AnimAssetsProperty, Reflected)
            IN  IF AnimAssetsProperty = nullptr
                THEN Result(UE_LOG(o1, "Error", "Could not find AnimationAssets property"),
                            FALSE)
                ELSE IF ArrayProperty = nullptr
                     THEN Result(o1, FALSE)
                     ELSE LET o2 == EmptyValues(o1)
                              o3 == MarkPackageDirty(o2)
                              o4 == PostEditChangeProperty(o3, AnimAssetsProperty)
                              o5 == UE_LOG(o4, "Log", "Database cleared successfully")
                          IN  Result(o5, TRUE)
       ELSE Result(UE_LOG(o, "Warning", "ClearDatabase is only available in editor builds"),
                   FALSE)

\* Mutant: the schema name is never looked up.
Mut_AAANK_GetDatabaseInfo_NoSchemaName(o, Database) ==
  IF Database = nullptr
  THEN Result(o, "Invalid database")
  ELSE LET AnimCount == GetNumAnimationAssets(o)
       IN  Result(o, Printf(DatabaseName, AnimCount, "None"))

AAANK_GetDatabaseInfo(o, Database) ==
  IF Database = nullptr
  THEN Result(o, "Invalid database")
  ELSE LET AnimCount == GetNumAnimationAssets(o)
           Schema == o.Schema
           SchemaName == IF Schema # nullptr THEN SchemaGetName ELSE "None"
       IN  Result(o, Printf(DatabaseName, AnimCount, SchemaName))

\* FAAANKPoseModule::HelloWorld(), returned by
\* UAAANKPoseBlueprintLibrary::GetHelloWorld(); it touches no database.
HelloWorld == "Hello World"
AAANK_GetHelloWorld == HelloWorld

\* ------------------------------------------------------------ the machine
Arrays == SeqsUpTo(AnimRefs, MaxBatch)
Handles == {nullptr, TheDatabase}
Reflections == {"FArrayProperty", "FObjectProperty", "none"}

\* A call: the operation, its arguments, and the host's answers to what the
\* operation may ask (bSaved: SavePackage; Reflected: FindPropertyByName).
TheCall(op, Database, AnimSequence, AnimSequences, bSaved, Reflected) ==
  [op |-> op, Database |-> Database, AnimSequence |-> AnimSequence,
   AnimSequences |-> AnimSequences, bSaved |-> bSaved, Reflected |-> Reflected]

\* A database asset as the editor has loaded it: saved, clean, index built.
LoadedDatabase(Assets, Schema) ==
  [AnimationAssets |-> Assets, Schema |-> Schema, bDirty |-> FALSE,
   SearchIndex |-> Assets, SavedAssets |-> Assets, HostCalls |-> <<>>, Log |-> <<>>]

\* The databases a run may start from: an empty one without a schema, and one
\* that holds an entry and has a schema.
InitialDatabases == {LoadedDatabase(<<>>, nullptr), LoadedDatabase(<<2>>, TheSchema)}

InitBuild(bEditor) ==
  /\ WITH_EDITOR = bEditor
  /\ \E Loaded \in InitialDatabases : db = [lib \in Libs |-> Loaded]
  /\ pre = db
  /\ ret = [lib \in Libs |-> 0]
  /\ lastCall = TheCall("none", nullptr, nullptr, <<>>, FALSE, "none")
  /\ expectedCount = [lib \in Libs |-> Len(db[lib].AnimationAssets)]

Init == InitBuild(TRUE)

\* The result of library lib among the two results of a call.
Of(lib, rP, rA) == IF lib = PSPE THEN rP ELSE rA

\* Both libraries have returned from the same call: rP, rA are their results.
Return(call, rP, rA) ==
  /\ \A lib \in Libs : Len(Of(lib, rP, rA).obj.AnimationAssets) <= MaxAssets
  /\ pre' = [lib \in Libs |-> Enter(db[lib])]
  /\ db' = [lib \in Libs |-> Of(lib, rP, rA).obj]
  /\ ret' = [lib \in Libs |-> Of(lib, rP, rA).ret]
  /\ lastCall' = call
  /\ UNCHANGED WITH_EDITOR

AddAnimationToDatabase ==
  \E Database \in Handles, AnimSequence \in AnimRefs :
    LET rP == PSPE_AddAnimationToDatabase(Enter(db[PSPE]), Database, AnimSequence)
        rA == AAANK_AddAnimationToDatabase(Enter(db[AAANK]), Database, AnimSequence)
    IN  /\ Return(TheCall("AddAnimationToDatabase", Database, AnimSequence, <<>>, FALSE, "none"),
                  rP, rA)
        /\ expectedCount' = [lib \in Libs |->
             expectedCount[lib] + (IF Of(lib, rP, rA).ret THEN 1 ELSE 0)]

AddAnimationsToDatabase ==
  \E Database \in Handles, AnimSequences \in Arrays :
    LET rP == PSPE_AddAnimationsToDatabase(Enter(db[PSPE]), Database, AnimSequences)
        rA == AAANK_AddAnimationsToDatabase(Enter(db[AAANK]), Database, AnimSequences)
    IN  /\ Return(TheCall("AddAnimationsToDatabase", Database, nullptr, AnimSequences, FALSE, "none"),
                  rP, rA)
        /\ expectedCount' = [lib \in Libs |-> expectedCount[lib] + Of(lib, rP, rA).ret]

BuildDatabase ==
  \E Database \in Handles, bSaved \in BOOLEAN :
    LET rP == PSPE_BuildDatabase(Enter(db[PSPE]), Database, bSaved)
        rA == AAANK_BuildDatabase(Enter(db[AAANK]), Database, bSaved)
    IN  /\ Return(TheCall("BuildDatabase", Database, nullptr, <<>>, bSaved, "none"), rP, rA)
        /\ UNCHANGED expectedCount

GetAnimationCount ==
  \E Database \in Handles :
    LET rP == PSPE_GetAnimationCount(Enter(db[PSPE]), Database)
        rA == AAANK_GetAnimationCount(Enter(db[AAANK]), Database)
    IN  /\ Return(TheCall("GetAnimationCount", Database, nullptr, <<>>, FALSE, "none"), rP, rA)
        /\ UNCHANGED expectedCount

\* A ClearDatabase on the database ends the current run of adds.
ClearDatabase ==
  \E Database \in Handles, Reflected \in Reflections :
    LET rP == PSPE_ClearDatabase(Enter(db[PSPE]), Database, Reflected)
        rA == AAANK_ClearDatabase(Enter(db[AAANK]), Database, Reflected)
    IN  /\ Return(TheCall("ClearDatabase", Database, nullptr, <<>>, FALSE, Reflected), rP, rA)
        /\ IF Database = nullptr
           THEN UNCHANGED expectedCount
           ELSE expectedCount' = [lib \in Libs |-> Len(Of(lib, rP, rA).obj.AnimationAssets)]

GetDatabaseInfo ==
  \E Database \in Handles :
    LET rP == PSPE_GetDatabaseInfo(Enter(db[PSPE]), Database)
        rA == AAANK_GetDatabaseInfo(Enter(db[AAANK]), Database)
    IN  /\ Return(TheCall("GetDatabaseInfo", Database, nullptr, <<>>, FALSE, "none"), rP, rA)
        /\ UNCHANGED expectedCount

Next ==
  \/ AddAnimationToDatabase
  \/ AddAnimationsToDatabase
  \/ BuildDatabase
  \/ GetAnimationCount
  \/ ClearDatabase
  \/ GetDatabaseInfo

Spec == Init /\ [][Next]_vars

\* The same program built with WITH_EDITOR off.
InitNoEditor == InitBuild(FALSE)
SpecNoEditor == InitNoEditor /\ [][Next]_vars

\* ================================================================ claims
\* Vocabulary of the claims.
Called(op) == lastCall.op = op
OnDatabase == lastCall.Database # nullptr
Fns(lib) == [i \in 1..Len(db[lib].HostCalls) |-> db[lib].HostCalls[i].fn]
Times(lib, fn) == Cardinality({i \in 1..Len(db[lib].HostCalls) : db[lib].HostCalls[i].fn = fn})
Logged(lib, Verbosity) == \E i \in 1..Len(db[lib].Log) : db[lib].Log[i].Verbosity = Verbosity
NonNull(AnimSequences) == SelectSeq(AnimSequences, LAMBDA a : a # nullptr)
SameContent(o1, o2) ==
  /\ o1.AnimationAssets = o2.AnimationAssets
  /\ o1.bDirty = o2.bDirty
  /\ o1.SearchIndex = o2.SearchIndex
  /\ o1.SavedAssets = o2.SavedAssets
NullArguments ==
  \/ ~Called("none") /\ lastCall.Database = nullptr
  \/ Called("AddAnimationToDatabase") /\ lastCall.AnimSequence = nullptr
ReturnedSentinel(lib) ==
  /\ lastCall.op \in {"AddAnimationToDatabase", "BuildDatabase", "ClearDatabase"}
       => ret[lib] = FALSE
  /\ lastCall.op \in {"AddAnimationsToDatabase", "GetAnimationCount"} => ret[lib] = 0
  /\ Called("GetDatabaseInfo") => ret[lib] = "Invalid database"

\* C1: in both libraries a call with a null Database (or AddAnimationToDatabase
\* with a null AnimSequence, whatever the Database) returns its failure
\* sentinel (false / 0 / "Invalid database") and makes no host call at all, so
\* the animation list, the dirty flag, the index and the saved content of the
\* database are what they were when the call was entered.
C1_NullHandleSentinel ==
  \A lib \in Libs :
    NullArguments =>
      /\ ReturnedSentinel(lib)
      /\ db[lib].HostCalls = <<>>
      /\ SameContent(db[lib], pre[lib])

\* C1 witness: AddAnimationToDatabase(Database, nullptr) on a live, non-empty,
\* dirty database has returned false in both libraries.
C1_Witness ==
  /\ Called("AddAnimationToDatabase") /\ OnDatabase /\ lastCall.AnimSequence = nullptr
  /\ \A lib \in Libs : ret[lib] = FALSE /\ db[lib].AnimationAssets # <<>> /\ db[lib].bDirty

\* C2: AddAnimationsToDatabase on a non-null Database returns exactly the
\* number N of non-null entries of the input array, and the animation list
\* afterwards is the list before the call followed by the non-null entries
\* in input order (nulls skipped, nothing rolled back).
C2_BatchAddCountsNonNull ==
  \A lib \in Libs :
    (Called("AddAnimationsToDatabase") /\ OnDatabase) =>
      /\ ret[lib] = Cardinality({i \in 1..Len(lastCall.AnimSequences) :
                                   lastCall.AnimSequences[i] # nullptr})
      /\ db[lib].AnimationAssets =
           pre[lib].AnimationAssets \o NonNull(lastCall.AnimSequences)

\* C2 witness: a batch with a null entry before a valid one, on a database
\* that already held an entry, has reported 1.
C2_Witness ==
  /\ Called("AddAnimationsToDatabase") /\ OnDatabase
  /\ Len(lastCall.AnimSequences) = 2
  /\ lastCall.AnimSequences[1] = nullptr /\ lastCall.AnimSequences[2] # nullptr
  /\ \A lib \in Libs : pre[lib].AnimationAssets # <<>> /\ ret[lib] = 1

\* C3: over a run of AddAnimationToDatabase / AddAnimationsToDatabase calls
\* with no ClearDatabase in between, GetAnimationCount is the count before
\* the run plus the sum of what the adds reported (1 per true, the count per
\* batch), duplicates included.
C3_CountIsBasePlusReported ==
  /\ PSPE_GetAnimationCount(db[PSPE], TheDatabase).ret = expectedCount[PSPE]
  /\ AAANK_GetAnimationCount(db[AAANK], TheDatabase).ret = expectedCount[AAANK]
  /\ \A lib \in Libs :
       (Called("GetAnimationCount") /\ OnDatabase) => ret[lib] = expectedCount[lib]

\* C3 witness: GetAnimationCount has returned 2 on a database that holds the
\* same animation twice.
C3_Witness ==
  /\ Called("GetAnimationCount") /\ OnDatabase
  /\ \A lib \in Libs :
       /\ ret[lib] = 2
       /\ \E i, j \in 1..Len(db[lib].AnimationAssets) :
            i # j /\ db[lib].AnimationAssets[i] = db[lib].AnimationAssets[j]

\* C4 as claimed: ClearDatabase on a non-null database whose list is already
\* empty returns true and leaves the count at 0; whenever ClearDatabase returns
\* true the list is empty afterwards; a second ClearDatabase also returns true
\* and leaves the same empty list.
C4_Original ==
  [][\A lib \in Libs :
       LET clear == lastCall'.op = "ClearDatabase" /\ lastCall'.Database # nullptr
       IN  /\ (clear /\ pre'[lib].AnimationAssets = <<>>)
                => (ret'[lib] = TRUE /\ Len(db'[lib].AnimationAssets) = 0)
           /\ (lastCall'.op = "ClearDatabase" /\ ret'[lib] = TRUE)
                => db'[lib].AnimationAssets = <<>>
           /\ (Called("ClearDatabase") /\ ret[lib] = TRUE /\ clear)
                => (ret'[lib] = TRUE /\ db'[lib].AnimationAssets = <<>>)
    ]_vars

\* C4 as amended: ClearDatabase on a non-null database whose list is already
\* empty leaves the count at 0 and returns true exactly when the reflection
\* lookup of "AnimationAssets" yields an array property; whenever
\* ClearDatabase returns true the list is empty afterwards whatever it held;
\* a second ClearDatabase whose lookup succeeds again returns true and leaves
\* the same empty list.
C4_ClearWhenLookupSucceeds ==
  [][\A lib \in Libs :
       LET clear == lastCall'.op = "ClearDatabase" /\ lastCall'.Database # nullptr
           found == lastCall'.Reflected = "FArrayProperty"
       IN  /\ (clear /\ pre'[lib].AnimationAssets = <<>>)
                => /\ Len(db'[lib].AnimationAssets) = 0
                   /\ ret'[lib] = found
           /\ (lastCall'.op = "ClearDatabase" /\ ret'[lib] = TRUE)
                => db'[lib].AnimationAssets = <<>>
           /\ (Called("ClearDatabase") /\ ret[lib] = TRUE /\ clear /\ found)
                => /\ ret'[lib] = TRUE
                   /\ db'[lib].AnimationAssets = <<>>
                   /\ db[lib].AnimationAssets = <<>>
    ]_vars

\* C4 witness: ClearDatabase has returned true on a database whose list an
\* earlier ClearDatabase had already emptied (it was loaded with an entry).
C4_Witness ==
  /\ Called("ClearDatabase") /\ OnDatabase /\ lastCall.Reflected = "FArrayProperty"
  /\ \A lib \in Libs :
       /\ pre[lib].AnimationAssets = <<>>
       /\ ret[lib] = TRUE
       /\ db[lib].AnimationAssets = <<>>
  /\ db[AAANK].SavedAssets # <<>>

C6_SaveFailureIsTerminal ==
  \A lib \in Libs :
    (Called("BuildDatabase") /\ OnDatabase
       /\ Times(lib, "SavePackage") > 0 /\ lastCall.bSaved = FALSE) =>
      /\ ret[lib] = FALSE
      /\ Times(lib, "SavePackage") = 1
      /\ Times(lib, "PostEditChangeProperty") = 1
      /\ db[lib].bDirty = TRUE
      /\ db[lib].AnimationAssets = pre[lib].AnimationAssets
      /\ db[lib].SavedAssets = pre[lib].SavedAssets
      /\ db[lib].SearchIndex = db[lib].AnimationAssets

\* C6 witness: BuildDatabase on a clean, non-empty database, save failed:
\* false returned, package now dirty.
C6_Witness ==
  /\ Called("BuildDatabase") /\ OnDatabase /\ lastCall.bSaved = FALSE
  /\ Times(PSPE, "SavePackage") = 1
  /\ pre[PSPE].bDirty = FALSE /\ pre[PSPE].AnimationAssets # <<>>
  /\ db[PSPE].bDirty = TRUE
  /\ ret[PSPE] = FALSE

\* C7 as claimed: when ClearDatabase is called on a non-null database and the
\* lookup of "AnimationAssets" fails (missing, or found but not an array
\* property), the call logs the failure and returns false, the list is
\* unchanged, the package is not marked dirty and no notification is fired.
C7_LookupFailureLoggedNoEffect ==
  \A lib \in Libs :
    (Called("ClearDatabase") /\ OnDatabase /\ lastCall.Reflected # "FArrayProperty") =>
      /\ Logged(lib, "Error")
      /\ ret[lib] = FALSE
      /\ db[lib].AnimationAssets = pre[lib].AnimationAssets
      /\ db[lib].bDirty = pre[lib].bDirty
      /\ Times(lib, "MarkPackageDirty") = 0
      /\ Times(lib, "PostEditChangeProperty") = 0

\* The part of C7 that does not concern the log: false is returned and, after
\* the Modify call, nothing else is done to the database.
C7_LookupFailureNoEffect ==
  \A lib \in Libs :
    (Called("ClearDatabase") /\ OnDatabase /\ lastCall.Reflected # "FArrayProperty") =>
      /\ ret[lib] = FALSE
      /\ Fns(lib) = <<"Modify">>
      /\ SameContent(db[lib], pre[lib])
      /\ (lastCall.Reflected = "none" => Logged(lib, "Error"))

\* C8: AddAnimationToDatabase with non-null arguments makes exactly the host
\* calls Modify, AddAnimationAsset, MarkPackageDirty, PostEditChangeProperty in
\* that order; AddAnimationsToDatabase on a non-null database makes Modify
\* once, then one AddAnimationAsset per non-null entry in input order, then
\* MarkPackageDirty once, then PostEditChangeProperty once as the last call,
\* also when no entry is valid and 0 is returned.
C8_HostCallOrder ==
  \A lib \in Libs :
    /\ (Called("AddAnimationToDatabase") /\ OnDatabase /\ lastCall.AnimSequence # nullptr) =>
         db[lib].HostCalls = << HostCall("Modify", nullptr),
                                HostCall("AddAnimationAsset", lastCall.AnimSequence),
                                HostCall("MarkPackageDirty", nullptr),
                                HostCall("PostEditChangeProperty", nullptr) >>
    /\ (Called("AddAnimationsToDatabase") /\ OnDatabase) =>
         LET valid == NonNull(lastCall.AnimSequences)
             n == Len(valid)
             h == db[lib].HostCalls
         IN  /\ Len(h) = n + 3
             /\ h[1].fn = "Modify"
             /\ \A i \in 1..n : h[i + 1] = HostCall("AddAnimationAsset", valid[i])
             /\ h[n + 2].fn = "MarkPackageDirty"
             /\ h[n + 3].fn = "PostEditChangeProperty"

\* C8 witness: a batch of two null entries on a live database: 0 returned,
\* and still Modify, MarkPackageDirty, PostEditChangeProperty.
C8_Witness ==
  /\ Called("AddAnimationsToDatabase") /\ OnDatabase
  /\ lastCall.AnimSequences = <<nullptr, nullptr>>
  /\ \A lib \in Libs : ret[lib] = 0 /\ Len(db[lib].HostCalls) = 3

C10_NoEditorBuildIsInert ==
  ~WITH_EDITOR =>
    /\ lastCall.op \in {"AddAnimationToDatabase", "BuildDatabase", "ClearDatabase"}
         => ret[AAANK] = FALSE
    /\ Called("AddAnimationsToDatabase") => ret[AAANK] = 0
    /\ db[AAANK].HostCalls = <<>>
    /\ SameContent(db[AAANK], pre[AAANK])
    /\ \E Loaded \in InitialDatabases :
         SameContent(db[AAANK], Loaded) /\ db[AAANK].Schema = Loaded.Schema
    /\ (Called("GetAnimationCount") /\ OnDatabase)
         => ret[AAANK] = Len(db[AAANK].AnimationAssets)
    /\ (Called("GetDatabaseInfo") /\ OnDatabase)
         => ret[AAANK] = IF db[AAANK].Schema = nullptr
                         THEN "Database: PSD_Locomotion\nAnimations: 0\nSchema: None"
                         ELSE "Database: PSD_Locomotion\nAnimations: 1\nSchema: PSS_Default"

\* C10 witness: with WITH_EDITOR off, a batch holding a valid entry, on a live
\* database, has returned 0 from UAAANKPoseBlueprintLibrary (and 1 or more
\* from the library without the guard); the database still holds its one entry.
C10_Witness ==
  /\ ~WITH_EDITOR
  /\ Called("AddAnimationsToDatabase") /\ OnDatabase
  /\ NonNull(lastCall.AnimSequences) # <<>>
  /\ ret[AAANK] = 0 /\ ret[PSPE] > 0
  /\ db[AAANK].AnimationAssets = <<2>>

\* C11: at the return of every call of either library on the database (editor
\* build), if the call changed the animation list then within that call
\* MarkPackageDirty was called and a PostEditChangeProperty was fired after
\* the last change of the list; hence between calls the search index is built
\* from the current list, and the list equals the last saved content whenever
\* the package is not marked dirty. GetAnimationCount and GetDatabaseInfo make
\* no host call and change neither the list, the dirty flag nor the index.
C11_ListChangeIsMarkedAndIndexed ==
  WITH_EDITOR =>
    \A lib \in Libs :
      LET h == db[lib].HostCalls
          changes == {i \in 1..Len(h) : h[i].fn \in {"AddAnimationAsset", "EmptyValues"}}
      IN  /\ db[lib].AnimationAssets # pre[lib].AnimationAssets =>
               /\ changes # {}
               /\ \E d \in 1..Len(h) : h[d].fn = "MarkPackageDirty"
               /\ \E n \in 1..Len(h) :
                    /\ h[n].fn = "PostEditChangeProperty"
                    /\ \A i \in changes : i < n
          /\ db[lib].SearchIndex = db[lib].AnimationAssets
          /\ ~db[lib].bDirty => db[lib].AnimationAssets = db[lib].SavedAssets
          /\ lastCall.op \in {"GetAnimationCount", "GetDatabaseInfo"} =>
               /\ h = <<>>
               /\ db[lib].AnimationAssets = pre[lib].AnimationAssets
               /\ db[lib].bDirty = pre[lib].bDirty
               /\ db[lib].SearchIndex = pre[lib].SearchIndex

\* C11 witness: a ClearDatabase has emptied a non-empty list of a package that
\* was clean (saved) when the call was entered; the package is now dirty and
\* the index is empty like the list, while the saved content still holds the
\* entries.
C11_Witness ==
  /\ WITH_EDITOR
  /\ Called("ClearDatabase") /\ OnDatabase
  /\ pre[PSPE].AnimationAssets # <<>> /\ pre[PSPE].bDirty = FALSE
  /\ Len(pre[PSPE].AnimationAssets) = 2
  /\ db[PSPE].AnimationAssets = <<>> /\ db[PSPE].SearchIndex = <<>>
  /\ db[PSPE].bDirty = TRUE
  /\ db[PSPE].SavedAssets = pre[PSPE].AnimationAssets
====
